---------------------------- MODULE Spec2Model ----------------------------
(***************************************************************************)
(* Deal-stage progression / probability engine of                         *)
(* scripts/analytics/pipeline-probs.js.  computeProgression, computeStats *)
(* and resolveStages are operators that follow the loops of the source;   *)
(* handleGetProbabilities is a process whose steps end at its awaits.     *)
(* The specifications:                                                     *)
(*   SpecProgression  computeProgression(stages, deals)                   *)
(*   Spec             computeStats({deals, stages, wonStage,              *)
(*                                  avgWonOverride})                      *)
(*   SpecHistory      computeStats over deals of longer stage histories   *)
(*   SpecResolve      resolveStages(client, pipelineId) over catalogs     *)
(*   SpecRange        getRangeFromQuery(q) at every clock reading         *)
(*   SpecHandler      handleGetProbabilities against a catalog and a      *)
(*                    chain of deal pages, either of which may reject     *)
(*   FairSpecPaging   the same steps under weak fairness, over every      *)
(*                    chain of pages                                       *)
(*   SpecPair         two requests whose steps interleave                 *)
(*                                                                         *)
(* Modelling conventions                                                   *)
(*   - a JS number that results from a division is an exact rational      *)
(*     [num, den] in lowest terms; NaN is [0, 0] and Infinity is [1, 0];  *)
(*   - a JS object used as a map is a TLA+ function whose DOMAIN is the   *)
(*     set of own keys;                                                    *)
(*   - an optional value (undefined / a value) is <<>> / <<v>>;           *)
(*   - stage ids are strings that do not contain "->", so that no two     *)
(*     pairs of stages share a progression key `${s}->${s1}`;             *)
(*   - history timestamps are valid instants, given in epoch              *)
(*     milliseconds.                                                       *)
(***************************************************************************)
EXTENDS Integers, Sequences, FiniteSets

VARIABLES
    deals,           \* the deals array handed to the function under test
    stages,          \* the stages array
    wonStage,        \* the wonStage argument of computeStats
    avgWonOverride,  \* the avgWonOverride argument: <<>> (undefined) or <<n>>
    out,             \* value returned by the latest call
    prevOut,         \* value returned by the call before it
    prevDeals,       \* deals argument of the call before it
    last,            \* which call was made last
    catalog,         \* what pipelinesApi.getAll('deals') answers
    pipelineId,      \* the pipelineId argument of resolveStages
    query,           \* req.query of the report request
    now,             \* the clock read by getRangeFromQuery
    pages,           \* the upstream store's chain of deal pages
    pc,              \* where handleGetProbabilities stands
    range,           \* its { start, end }
    config,          \* its { stages, wonStage }
    after,           \* dealsCohort's cursor
    collected,       \* the deals yielded by dealsCohort so far
    calls,           \* the upstream calls made, in order
    settled,         \* how the store settled them: "ok" or "rejected"
    res,             \* the response sent: <<>> or <<[status, body]>>
    reqs,            \* two report requests in flight: the locals of each
    lists,           \* the deals array of each of the two requests
    tables           \* the module's FRIENDLY_ORDER and DEFAULT_ALIASES

resolveVars == <<catalog, pipelineId>>

handlerVars ==
    <<query, now, pages, pc, range, config, after, collected, calls, settled, res>>

pairVars == <<reqs, lists, tables>>

vars ==
    <<deals, stages, wonStage, avgWonOverride, out, prevOut, prevDeals, last,
      resolveVars, handlerVars, pairVars>>

---------------------------------------------------------------------------
(* Bounds of the input space *)

MaxDeals == 2        \* deals per cohort
MaxEntries == 2      \* stage-history entries per cohort (Spec)
MaxStages == 2       \* length of the stage list (Spec)
ProgMaxEntries == 3  \* stage-history entries per cohort (SpecProgression)
ProgMaxStages == 4   \* length of the stage list (SpecProgression)

StageIds == {"a", "b"}
Timestamps == {1, 2}
FlagStrs == {"true", "false"}
AmountStrs == {"", "1000"}
AvgWonOverrides == {<<>>, <<0>>, <<500>>}

Undefined == <<>>

FRIENDLY_ORDER ==
    <<"inbox", "sequenced", "engaging", "responsive", "advising",
      "negotiation", "contact", "closedwon">>

DEFAULT_ALIASES ==
    [inbox |-> <<"inbox", "sql", "appointmentscheduled">>,
     sequenced |-> <<"sequenced">>,
     engaging |-> <<"engaging", "presentationscheduled", "email opened", "clicked">>,
     responsive |-> <<"responsive", "replied", "decisionmakerboughtin">>,
     advising |-> <<"advising">>,
     negotiation |-> <<"negotiation", "contractsent">>,
     contact |-> <<"contact", "deposit", "quote accepted", "qualifiedtobuy">>,
     closedwon |-> <<"closedwon", "closed won", "won">>]

\* the module-level tables as the module defines them
ModuleLoaded == tables = [order |-> FRIENDLY_ORDER, aliases |-> DEFAULT_ALIASES]

\* no catalog is in play
ResolveIdle ==
    /\ catalog = [results |-> Undefined]
    /\ pipelineId = Undefined

\* no report request is in play
HandlerIdle ==
    /\ query = [none |-> TRUE]
    /\ now = 0
    /\ pages = <<>>
    /\ pc = "idle"
    /\ range = Undefined
    /\ config = Undefined
    /\ after = Undefined
    /\ collected = <<>>
    /\ calls = <<>>
    /\ settled = <<>>
    /\ res = Undefined
    /\ reqs = <<>>
    /\ lists = <<>>
    /\ ModuleLoaded

---------------------------------------------------------------------------
(* JS numbers *)

Min(S) == CHOOSE x \in S : \A y \in S : x <= y

RECURSIVE GCD(_, _)
GCD(a, b) == IF b = 0 THEN a ELSE GCD(b, a % b)

NaN == [num |-> 0, den |-> 0]
Infinity == [num |-> 1, den |-> 0]

Num(n) == [num |-> n, den |-> 1]
Zero == Num(0)
One == Num(1)

IsNaN(x) == x.den = 0 /\ x.num = 0

\* n / d for numbers n >= 0, d >= 0
Div(n, d) ==
    IF d = 0 THEN (IF n = 0 THEN NaN ELSE Infinity)
    ELSE LET g == GCD(n, d) IN [num |-> n \div g, den |-> d \div g]

\* x * y for non-negative x, y
Mul(x, y) ==
    IF IsNaN(x) \/ IsNaN(y) THEN NaN
    ELSE IF x.den = 0 \/ y.den = 0
         THEN (IF x.num = 0 \/ y.num = 0 THEN NaN ELSE Infinity)
         ELSE Div(x.num * y.num, x.den * y.den)

\* 1 - x for 0 <= x
OneMinus(x) ==
    IF IsNaN(x) THEN NaN
    ELSE IF x.den = 0 THEN [num |-> -1, den |-> 0]
    ELSE [num |-> x.den - x.num, den |-> x.den]

Leq(x, y) == x.den # 0 /\ y.den # 0 /\ x.num * y.den <= y.num * x.den

\* obj[k] || 0
GetOr0(obj, k) == IF k \in DOMAIN obj THEN obj[k] ELSE 0

\* obj[k] = v
Put(obj, k, v) == [x \in DOMAIN obj \cup {k} |-> IF x = k THEN v ELSE obj[x]]

EmptyObj == [x \in {} |-> 0]

---------------------------------------------------------------------------
(* Input space: deals with their dealstage history *)

Entries == [value : StageIds, timestamp : Timestamps]

Hists(n) == [1..n -> Entries]

\* a deal: d.properties.hs_is_closed_won, d.properties.amount and
\* d.propertiesWithHistory.dealstage (<<>> when absent or empty)
DealsWith(n, flags, amounts) ==
    { [hs_is_closed_won |-> f, amount |-> a, dealstage |-> h] :
        f \in flags, a \in amounts, h \in Hists(n) }

\* the lists of k deals that hold at most `budget` history entries in all
RECURSIVE DealListsOf(_, _, _, _)
DealListsOf(k, budget, flags, amounts) ==
    IF k = 0 THEN { <<>> }
    ELSE UNION { { <<d>> \o rest :
                     d \in DealsWith(n, flags, amounts),
                     rest \in DealListsOf(k - 1, budget - n, flags, amounts) } :
                 n \in 0..budget }

DealLists(maxDeals, budget, flags, amounts) ==
    UNION { DealListsOf(k, budget, flags, amounts) : k \in 0..maxDeals }

StageLists(maxLen) == UNION { [1..n -> StageIds] : n \in 0..maxLen }

Range(seq) == { seq[i] : i \in 1..Len(seq) }

InsertAt(seq, k, x) == SubSeq(seq, 1, k - 1) \o <<x>> \o SubSeq(seq, k, Len(seq))

\* the permutations of 1..n
Perms(n) == { p \in [1..n -> 1..n] : \A i, j \in 1..n : i # j => p[i] # p[j] }

\* seq with its elements in the order p
Permuted(seq, p) == [i \in 1..Len(seq) |-> seq[p[i]]]

\* the deal lists that differ from ds only in the order of the entries of
\* each deal's history
RECURSIVE Reorderings(_)
Reorderings(ds) ==
    IF ds = <<>> THEN { <<>> }
    ELSE { <<[ds[1] EXCEPT !.dealstage = Permuted(ds[1].dealstage, p)]>> \o rest :
             p \in Perms(Len(ds[1].dealstage)),
             rest \in Reorderings(SubSeq(ds, 2, Len(ds))) }

---------------------------------------------------------------------------
(* computeProgression *)

\* new Date(h.timestamp).getTime() of a valid instant given in epoch ms
GetTime(timestamp) == timestamp

\* .map(h => ({ v: h.value, t: new Date(h.timestamp).getTime() }))
MapVT(dealstage) ==
    [i \in 1..Len(dealstage) |->
        [v |-> dealstage[i].value, t |-> GetTime(dealstage[i].timestamp)]]

\* one step of the stable ascending sort: h goes behind every element whose
\* t is not greater than its own
InsertByT(sorted, h) ==
    LET pos == Cardinality({ i \in 1..Len(sorted) : sorted[i].t <= h.t })
    IN SubSeq(sorted, 1, pos) \o <<h>> \o SubSeq(sorted, pos + 1, Len(sorted))

\* faulty variant of SortByT (C12): the history is left in the order received
Unsorted(hist) == hist

\* .sort((a, b) => a.t - b.t), Array.prototype.sort being stable
RECURSIVE SortByT(_)
SortByT(hist) ==
    IF hist = <<>> THEN <<>>
    ELSE InsertByT(SortByT(SubSeq(hist, 1, Len(hist) - 1)), hist[Len(hist)])

SortedHist(d) == SortByT(MapVT(d.dealstage))

\* hist.find(h => h.v === s)?.t
FindT(hist, s) ==
    LET idx == { i \in 1..Len(hist) : hist[i].v = s }
    IN IF idx = {} THEN Undefined ELSE <<hist[Min(idx)].t>>

\* tsS != null && tsS1 != null && tsS1 > tsS
Progressed(tsS, tsS1) ==
    tsS # Undefined /\ tsS1 # Undefined /\ tsS1[1] > tsS[1]

\* `${s}->${s1}`
Key(s, s1) == s \o "->" \o s1

\* for (const s of stages) reachedCounts[s] = 0
ZeroCounts(stgs) == [s \in Range(stgs) |-> 0]

\* faulty variant of CountReached (C27): the count is set to 1, not
\* incremented
RECURSIVE CountReachedAssigned(_, _, _, _)
CountReachedAssigned(reachedCounts, stgs, i, reachedSet) ==
    IF i > Len(stgs) THEN reachedCounts
    ELSE CountReachedAssigned(
            IF stgs[i] \in reachedSet
            THEN Put(reachedCounts, stgs[i], 1)
            ELSE reachedCounts,
            stgs, i + 1, reachedSet)

\* for (const s of stages) if (reachedSet.has(s)) reachedCounts[s]++
RECURSIVE CountReached(_, _, _, _)
CountReached(reachedCounts, stgs, i, reachedSet) ==
    IF i > Len(stgs) THEN reachedCounts
    ELSE CountReached(
            IF stgs[i] \in reachedSet
            THEN Put(reachedCounts, stgs[i], reachedCounts[stgs[i]] + 1)
            ELSE reachedCounts,
            stgs, i + 1, reachedSet)

\* for (let i = 0; i < stages.length - 1; i++) { ... progressedCounts[key]++ }
RECURSIVE CountProgressed(_, _, _, _)
CountProgressed(progressedCounts, stgs, i, hist) ==
    IF i > Len(stgs) - 1 THEN progressedCounts
    ELSE LET s == stgs[i]
             s1 == stgs[i + 1]
             key == Key(s, s1)
         IN CountProgressed(
                IF Progressed(FindT(hist, s), FindT(hist, s1))
                THEN Put(progressedCounts, key, GetOr0(progressedCounts, key) + 1)
                ELSE progressedCounts,
                stgs, i + 1, hist)

\* for (const d of deals) { ... }
RECURSIVE ProgressionDeals(_, _, _, _)
ProgressionDeals(counts, stgs, ds, j) ==
    IF j > Len(ds) THEN counts
    ELSE LET hist == SortedHist(ds[j])
             reachedSet == { hist[i].v : i \in 1..Len(hist) }
         IN ProgressionDeals(
                [reachedCounts |->
                    CountReached(counts.reachedCounts, stgs, 1, reachedSet),
                 progressedCounts |->
                    CountProgressed(counts.progressedCounts, stgs, 1, hist)],
                stgs, ds, j + 1)

\* faulty variant of PAdvance (C3): the division without the guard on fromReached
PAdvanceUnguarded(progressed, fromReached) == Div(progressed, fromReached)

\* fromReached ? (progressed / fromReached) : 0
PAdvance(progressed, fromReached) ==
    IF fromReached # 0 THEN Div(progressed, fromReached) ELSE Zero

\* faulty variant of StageLoss (C5): the advance probability itself
StageLossAsAdvance(p_advance) == p_advance

\* stageLoss[s] = 1 - p_advance
StageLoss(p_advance) == OneMinus(p_advance)

\* the second loop over adjacent stage pairs: progression[key] and stageLoss[s]
RECURSIVE BuildProgression(_, _, _, _)
BuildProgression(acc, stgs, i, counts) ==
    IF i > Len(stgs) - 1 THEN acc
    ELSE LET s == stgs[i]
             s1 == stgs[i + 1]
             key == Key(s, s1)
             fromReached == GetOr0(counts.reachedCounts, s)
             progressed == GetOr0(counts.progressedCounts, key)
             p_advance == PAdvance(progressed, fromReached)
         IN BuildProgression(
                [progression |->
                    Put(acc.progression, key,
                        [from_reached |-> fromReached,
                         progressed |-> progressed,
                         p_advance |-> p_advance]),
                 stageLoss |-> Put(acc.stageLoss, s, StageLoss(p_advance))],
                stgs, i + 1, counts)

computeProgression(stgs, ds) ==
    LET counts == ProgressionDeals(
                      [reachedCounts |-> ZeroCounts(stgs),
                       progressedCounts |-> EmptyObj],
                      stgs, ds, 1)
        built == BuildProgression(
                      [progression |-> EmptyObj, stageLoss |-> EmptyObj],
                      stgs, 1, counts)
    IN [progression |-> built.progression,
        stageLoss |-> built.stageLoss,
        reachedCounts |-> counts.reachedCounts]

---------------------------------------------------------------------------
(* computeStats *)

\* parseFloat of the amount strings of the model
ParseFloat(str) ==
    CASE str = "0" -> 0
      [] str = "1000" -> 1000
      [] OTHER -> 0

\* parseFloat(d.properties.amount || '0') || 0
Amount(d) == ParseFloat(IF d.amount = "" THEN "0" ELSE d.amount)

\* faulty variant of SkipDeal (C8): a deal of empty history is not skipped
SkipNoDeal(hist) == FALSE

\* if (!hist.length) continue
SkipDeal(hist) == Len(hist) = 0

\* faulty variant of IsWon (C7): only the closed-won flag makes a deal won
IsWonByFlagOnly(d, ever, won) == d.hs_is_closed_won = "true"

\* faulty variant of IsWon (C29): the deal must stand in the won stage at the
\* end of its history
IsWonByLastEntry(d, ever, won) ==
    \/ d.hs_is_closed_won = "true"
    \/ d.dealstage[Len(d.dealstage)].value = won

\* d.properties.hs_is_closed_won === 'true' || ever.has(wonStage)
IsWon(d, ever, won) == d.hs_is_closed_won = "true" \/ won \in ever

\* for (const s of ever) obj[s] = (obj[s] || 0) + 1
IncAll(obj, ever) ==
    [s \in DOMAIN obj \cup ever |->
        IF s \in ever THEN GetOr0(obj, s) + 1 ELSE obj[s]]

\* faulty variant of NewCounters (C10): reached and wonAfter live outside the
\* function and keep the counts of the call before
StaleCounters ==
    [reached |-> IF last = "none" THEN EmptyObj ELSE out.reached,
     wonAfter |-> IF last = "none" THEN EmptyObj ELSE out.wonAfter,
     wonCount |-> 0,
     wonSum |-> 0]

\* the locals of a call: reached, wonAfter, wonCount = 0, wonSum = 0
NewCounters ==
    [reached |-> EmptyObj, wonAfter |-> EmptyObj, wonCount |-> 0, wonSum |-> 0]

\* faulty variant of StatsDeals (C11): a deal of empty history ends the loop
\* (break for continue)
RECURSIVE StatsDealsBreak(_, _, _, _)
StatsDealsBreak(acc, ds, won, j) ==
    IF j > Len(ds) THEN acc
    ELSE LET d == ds[j]
             hist == d.dealstage
             ever == { hist[i].value : i \in 1..Len(hist) }
             amt == Amount(d)
         IN IF Len(hist) = 0 THEN acc
            ELSE StatsDealsBreak(
                    IF d.hs_is_closed_won = "true" \/ won \in ever
                    THEN [reached |-> IncAll(acc.reached, ever),
                          wonAfter |-> IncAll(acc.wonAfter, ever),
                          wonCount |-> acc.wonCount + 1,
                          wonSum |-> IF amt > 0 THEN acc.wonSum + amt
                                     ELSE acc.wonSum]
                    ELSE [acc EXCEPT !.reached = IncAll(acc.reached, ever)],
                    ds, won, j + 1)

\* for (const d of deals) { ... }
RECURSIVE StatsDeals(_, _, _, _)
StatsDeals(acc, ds, won, j) ==
    IF j > Len(ds) THEN acc
    ELSE LET d == ds[j]
             hist == d.dealstage
             ever == { hist[i].value : i \in 1..Len(hist) }
             amt == Amount(d)
         IN IF SkipDeal(hist) THEN StatsDeals(acc, ds, won, j + 1)
            ELSE StatsDeals(
                    IF IsWon(d, ever, won)
                    THEN [reached |-> IncAll(acc.reached, ever),
                          wonAfter |-> IncAll(acc.wonAfter, ever),
                          wonCount |-> acc.wonCount + 1,
                          wonSum |-> IF amt > 0 THEN acc.wonSum + amt
                                     ELSE acc.wonSum]
                    ELSE [acc EXCEPT !.reached = IncAll(acc.reached, ever)],
                    ds, won, j + 1)

\* faulty variant of AvgWon (C9): the override is tested for truthiness, so 0
\* is not an override
AvgWonTruthyOverride(override, wonCount, wonSum) ==
    IF override # Undefined /\ override[1] # 0 THEN Num(override[1])
    ELSE IF wonCount # 0 THEN Div(wonSum, wonCount) ELSE Zero

\* faulty variant of AvgWon (C13): the division without the guard on wonCount
AvgWonUnguarded(override, wonCount, wonSum) ==
    IF override # Undefined THEN Num(override[1]) ELSE Div(wonSum, wonCount)

\* (typeof avgWonOverride === 'number') ? avgWonOverride
\*                                      : (wonCount ? wonSum / wonCount : 0)
AvgWon(override, wonCount, wonSum) ==
    IF override # Undefined THEN Num(override[1])
    ELSE IF wonCount # 0 THEN Div(wonSum, wonCount) ELSE Zero

\* faulty variant of PWin (C4): the division without the guard on r
PWinUnguarded(w, r) == Div(w, r)

\* r ? w / r : 0
PWin(w, r) == IF r # 0 THEN Div(w, r) ELSE Zero

\* for (const s of stages) completion[s] = { ... }
RECURSIVE BuildCompletion(_, _, _, _, _)
BuildCompletion(completion, stgs, i, acc, avgWon) ==
    IF i > Len(stgs) THEN completion
    ELSE LET s == stgs[i]
             r == GetOr0(acc.reached, s)
             w == GetOr0(acc.wonAfter, s)
             pWin == PWin(w, r)
         IN BuildCompletion(
                Put(completion, s,
                    [reached |-> r, wonAfter |-> w, p_win |-> pWin,
                     euro_value |-> Mul(avgWon, pWin)]),
                stgs, i + 1, acc, avgWon)

computeStats(ds, stgs, won, override) ==
    LET acc == StatsDeals(NewCounters, ds, won, 1)
        avgWon == AvgWon(override, acc.wonCount, acc.wonSum)
        prog == computeProgression(stgs, ds)
    IN [avgWon |-> avgWon,
        reached |-> acc.reached,
        wonAfter |-> acc.wonAfter,
        completion |-> BuildCompletion(EmptyObj, stgs, 1, acc, avgWon),
        progression |-> prog.progression,
        stageLoss |-> prog.stageLoss]

---------------------------------------------------------------------------
(* The calls *)

NoOut == [none |-> TRUE]

\* faulty variant of DealsAfterCall (C26): the sort orders the history itself
DealsSortedInPlace(ds) ==
    [j \in 1..Len(ds) |->
        LET h == ds[j].dealstage
            p == CHOOSE q \in Perms(Len(h)) :
                    \A i, k \in 1..Len(h) :
                        i < k => \/ h[q[i]].timestamp < h[q[k]].timestamp
                                 \/ /\ h[q[i]].timestamp = h[q[k]].timestamp
                                    /\ q[i] < q[k]
        IN [ds[j] EXCEPT !.dealstage = Permuted(h, p)]]

\* the deals array as a call leaves it: the history is read into the new
\* array that .map returns, and .sort orders that array
DealsAfterCall(ds) == ds

\* inputs of a computeProgression call; the function reads no property of a
\* deal, only its history
InitProgression ==
    /\ deals \in DealLists(MaxDeals, ProgMaxEntries, {"false"}, {""})
    /\ stages \in StageLists(ProgMaxStages)
    /\ wonStage = Undefined
    /\ avgWonOverride = Undefined
    /\ out = NoOut
    /\ prevOut = NoOut
    /\ prevDeals = <<>>
    /\ last = "none"
    /\ ResolveIdle
    /\ HandlerIdle

CallComputeProgression ==
    /\ last = "none"
    /\ wonStage = Undefined
    /\ out' = computeProgression(stages, deals)
    /\ deals' = DealsAfterCall(deals)
    /\ last' = "computeProgression"
    /\ UNCHANGED <<stages, wonStage, avgWonOverride, prevOut, prevDeals>>
    /\ UNCHANGED <<resolveVars, handlerVars, pairVars>>

NextProgression == CallComputeProgression

SpecProgression == InitProgression /\ [][NextProgression]_vars

\* inputs of a computeStats call
Init ==
    /\ deals \in DealLists(MaxDeals, MaxEntries, FlagStrs, AmountStrs)
    /\ stages \in StageLists(MaxStages)
    /\ wonStage \in { <<s>> : s \in StageIds }
    /\ avgWonOverride \in AvgWonOverrides
    /\ out = NoOut
    /\ prevOut = NoOut
    /\ prevDeals = <<>>
    /\ last = "none"
    /\ ResolveIdle
    /\ HandlerIdle

\* computeStats({ deals, stages, wonStage, avgWonOverride })
CallComputeStats ==
    /\ last = "none"
    /\ wonStage # Undefined
    /\ out' = computeStats(deals, stages, wonStage[1], avgWonOverride)
    /\ deals' = DealsAfterCall(deals)
    /\ last' = "computeStats"
    /\ UNCHANGED <<stages, wonStage, avgWonOverride, prevOut, prevDeals>>
    /\ UNCHANGED <<resolveVars, handlerVars, pairVars>>

\* a second call with the same arguments
CallComputeStatsAgain ==
    /\ last = "computeStats"
    /\ out' = computeStats(deals, stages, wonStage[1], avgWonOverride)
    /\ prevOut' = out
    /\ prevDeals' = deals
    /\ last' = "again"
    /\ UNCHANGED <<deals, stages, wonStage, avgWonOverride>>
    /\ UNCHANGED <<resolveVars, handlerVars, pairVars>>

\* a second call whose deals hold one more deal, of empty stage history
CallWithEmptyHistoryDeal ==
    /\ last = "computeStats"
    /\ Len(deals) < MaxDeals
    /\ \E d \in DealsWith(0, FlagStrs, AmountStrs), k \in 1..(Len(deals) + 1) :
          /\ deals' = InsertAt(deals, k, d)
          /\ out' = computeStats(deals', stages, wonStage[1], avgWonOverride)
    /\ prevOut' = out
    /\ prevDeals' = deals
    /\ last' = "emptyHistoryDeal"
    /\ UNCHANGED <<stages, wonStage, avgWonOverride>>
    /\ UNCHANGED <<resolveVars, handlerVars, pairVars>>

\* a second call whose deals are the same deals in another order
CallWithPermutedDeals ==
    /\ last = "computeStats"
    /\ Len(deals) >= 2
    /\ \E p \in Perms(Len(deals)) :
          /\ deals' = Permuted(deals, p)
          /\ out' = computeStats(deals', stages, wonStage[1], avgWonOverride)
    /\ prevOut' = out
    /\ prevDeals' = deals
    /\ last' = "permutedDeals"
    /\ UNCHANGED <<stages, wonStage, avgWonOverride>>
    /\ UNCHANGED <<resolveVars, handlerVars, pairVars>>

Next ==
    \/ CallComputeStats
    \/ CallComputeStatsAgain
    \/ CallWithEmptyHistoryDeal
    \/ CallWithPermutedDeals

Spec == Init /\ [][Next]_vars

\* inputs of a computeStats call over histories of up to ProgMaxEntries
\* entries; the order of a history is read by computeProgression alone, which
\* reads neither the flag nor the amount
InitHistory ==
    /\ deals \in DealLists(MaxDeals, ProgMaxEntries, {"false"}, {"1000"})
    /\ stages \in StageLists(MaxStages)
    /\ wonStage \in { <<s>> : s \in StageIds }
    /\ avgWonOverride = Undefined
    /\ out = NoOut
    /\ prevOut = NoOut
    /\ prevDeals = <<>>
    /\ last = "none"
    /\ ResolveIdle
    /\ HandlerIdle

\* a second call in which every deal's history holds the same entries in
\* another order
CallWithReorderedHistory ==
    /\ last = "computeStats"
    /\ \E ds \in Reorderings(deals) :
          /\ deals' = ds
          /\ out' = computeStats(ds, stages, wonStage[1], avgWonOverride)
    /\ prevOut' = out
    /\ prevDeals' = deals
    /\ last' = "reorderedHistory"
    /\ UNCHANGED <<stages, wonStage, avgWonOverride>>
    /\ UNCHANGED <<resolveVars, handlerVars, pairVars>>

NextHistory ==
    \/ CallComputeStats
    \/ CallWithReorderedHistory

SpecHistory == InitHistory /\ [][NextHistory]_vars

---------------------------------------------------------------------------
(* resolveStages(hubspotClient, pipelineId, friendlyOrder, aliasMap)       *)
(* Labels and aliases are strings; toLowerCase and includes are computed  *)
(* on their characters.                                                    *)

UpperCaseLetters == "ABCDEFGHIJKLMNOPQRSTUVWXYZ"
LowerCaseLetters == "abcdefghijklmnopqrstuvwxyz"

\* the lower-case letter of every upper-case letter
LowerOf ==
    [c \in { SubSeq(UpperCaseLetters, i, i) : i \in 1..Len(UpperCaseLetters) } |->
        LET i == CHOOSE i \in 1..Len(UpperCaseLetters) : SubSeq(UpperCaseLetters, i, i) = c
        IN SubSeq(LowerCaseLetters, i, i)]

\* String.prototype.toLowerCase on one character
LowerChar(c) == IF c \in DOMAIN LowerOf THEN LowerOf[c] ELSE c

\* String.prototype.toLowerCase
RECURSIVE toLowerCase(_)
toLowerCase(s) ==
    IF Len(s) = 0 THEN s
    ELSE LowerChar(SubSeq(s, 1, 1)) \o toLowerCase(SubSeq(s, 2, Len(s)))

\* String.prototype.includes: needle occurs in hay as a run of characters
includes(hay, needle) ==
    \/ Len(needle) = 0
    \/ \E i \in 1..(Len(hay) - Len(needle) + 1) :
          SubSeq(hay, i, i + Len(needle) - 1) = needle

\* res.results || []
Pipelines(cat) == IF cat.results = Undefined THEN <<>> ELSE cat.results[1]

\* faulty variant of FindPipeline (C17): an unknown id falls back to the
\* first pipeline
FindPipelineOrFirst(pipelines, id) ==
    LET hits == { i \in 1..Len(pipelines) : id # Undefined /\ pipelines[i].id = id[1] }
    IN IF hits # {} THEN <<pipelines[Min(hits)]>>
       ELSE IF Len(pipelines) = 0 THEN Undefined
       ELSE <<pipelines[1]>>

\* pipelineId ? pipelines.find(p => p.id === pipelineId) : pipelines[0]
\* (a pipelineId of undefined, null or '' is falsy)
FindPipeline(pipelines, id) ==
    IF id # Undefined /\ id[1] # ""
    THEN LET hits == { i \in 1..Len(pipelines) : pipelines[i].id = id[1] }
         IN IF hits = {} THEN Undefined ELSE <<pipelines[Min(hits)]>>
    ELSE IF Len(pipelines) = 0 THEN Undefined
    ELSE <<pipelines[1]>>

\* (pipe.stages || []).map(s => ({ id: s.id,
\*                                 label: (s.label || '').toLowerCase() }))
StageList(pipe) ==
    [i \in 1..Len(pipe.stages) |->
        [id |-> pipe.stages[i].id,
         label |-> IF pipe.stages[i].label = Undefined THEN ""
                   ELSE toLowerCase(pipe.stages[i].label[1])]]

\* stageList.find(s => s.label.includes(needle))
FindHit(stageList, needle) ==
    LET hits == { i \in 1..Len(stageList) : includes(stageList[i].label, needle) }
    IN IF hits = {} THEN Undefined ELSE <<stageList[Min(hits)]>>

\* faulty variant of findIdByAliases (C25): the first stage whose label
\* contains any of the aliases
findIdByStageOrder(stageList, aliases, k) ==
    LET hits == { i \in 1..Len(stageList) :
                    \E a \in k..Len(aliases) :
                        includes(stageList[i].label, toLowerCase(aliases[a])) }
    IN IF hits = {} THEN Undefined ELSE <<stageList[Min(hits)].id>>

\* function findIdByAliases(aliases), from the k-th alias on: <<>> is null
RECURSIVE findIdByAliases(_, _, _)
findIdByAliases(stageList, aliases, k) ==
    IF k > Len(aliases) THEN Undefined
    ELSE LET hit == FindHit(stageList, toLowerCase(aliases[k]))
         IN IF hit # Undefined THEN <<hit[1].id>>
            ELSE findIdByAliases(stageList, aliases, k + 1)

\* aliasMap[key] || [key]
AliasesOf(aliasMap, key) ==
    IF key \in DOMAIN aliasMap THEN aliasMap[key] ELSE <<key>>

\* faulty variant of Mapped (C16): an entry without a match leaves a null
RECURSIVE MappedWithNulls(_, _, _, _)
MappedWithNulls(stageList, friendlyOrder, aliasMap, k) ==
    IF k > Len(friendlyOrder) THEN <<>>
    ELSE LET id == findIdByAliases(stageList, AliasesOf(aliasMap, friendlyOrder[k]), 1)
         IN (IF id # Undefined THEN <<id[1]>> ELSE <<"null">>)
            \o MappedWithNulls(stageList, friendlyOrder, aliasMap, k + 1)

\* const mapped = []; for (const key of friendlyOrder) { ... if (id)
\* mapped.push(id) }, from the k-th key on
RECURSIVE Mapped(_, _, _, _)
Mapped(stageList, friendlyOrder, aliasMap, k) ==
    IF k > Len(friendlyOrder) THEN <<>>
    ELSE LET id == findIdByAliases(stageList, AliasesOf(aliasMap, friendlyOrder[k]), 1)
         IN (IF id # Undefined THEN <<id[1]>> ELSE <<>>)
            \o Mapped(stageList, friendlyOrder, aliasMap, k + 1)

\* mapped.filter(s => s !== closedWonId)
RECURSIVE Without(_, _)
Without(seq, x) ==
    IF seq = <<>> THEN <<>>
    ELSE (IF x # Undefined /\ seq[1] = x[1] THEN <<>> ELSE <<seq[1]>>)
         \o Without(Tail(seq), x)

\* faulty variant of WonLast (C15): the won id stays where the mapping put it
WonWhereMapped(mapped, closedWonId) == mapped

\* const stages = mapped.filter(s => s !== closedWonId);
\* if (closedWonId) stages.push(closedWonId)
WonLast(mapped, closedWonId) ==
    Without(mapped, closedWonId)
        \o (IF closedWonId # Undefined THEN <<closedWonId[1]>> ELSE <<>>)

\* closedWonId || stages[stages.length - 1]: <<>> is undefined
WonStageOf(stgs, closedWonId) ==
    IF closedWonId # Undefined THEN closedWonId
    ELSE IF Len(stgs) = 0 THEN Undefined
    ELSE <<stgs[Len(stgs)]>>

NoPipelineError == "No deal pipeline found for stage resolution"

\* what the call settles to: [stages, wonStage], or [error] for the throw of
\* line 60
resolveStages(cat, id, friendlyOrder, aliasMap) ==
    LET pipe == FindPipeline(Pipelines(cat), id)
    IN IF pipe = Undefined THEN [error |-> NoPipelineError]
       ELSE LET stageList == StageList(pipe[1])
                mapped == Mapped(stageList, friendlyOrder, aliasMap, 1)
                closedWonId == findIdByAliases(stageList, AliasesOf(aliasMap, "closedwon"), 1)
                stgs == WonLast(mapped, closedWonId)
            IN [stages |-> stgs, wonStage |-> WonStageOf(stgs, closedWonId)]

\* the catalogs of the input space: pipelines of ids PipelineIds, in that
\* order, each with up to n stages whose ids are those of the id table and
\* whose labels are drawn from labels
MaxCatalogStages == 3  \* stages over all pipelines of a catalog

PipelineIds == <<"p1", "p2">>

CatalogStageIds == [p1 |-> <<"s1", "s2", "s3">>, p2 |-> <<"t1", "t2", "t3">>]

Labels ==
    { <<"Qualified To Buy">>, <<"Closed Won">>, <<"SQL Inbox">>,
      <<"Engaging - Replied">>, <<"Deposit Won">>, <<"Closed Lost">>, Undefined }

PipelineIdArgs == { Undefined, <<"">>, <<"p1">>, <<"p2">>, <<"p9">> }

StageSeqs(ids, labels, n) ==
    UNION { { [i \in 1..k |-> [id |-> ids[i], label |-> f[i]]] : f \in [1..k -> labels] } :
              k \in 0..Min({n, Len(ids)}) }

RECURSIVE PipelineSeqs(_, _, _, _)
PipelineSeqs(idTable, labels, k, budget) ==
    IF k > Len(PipelineIds) THEN { <<>> }
    ELSE { <<>> } \cup
         UNION { { <<[id |-> PipelineIds[k], stages |-> ss]>> \o rest :
                     rest \in PipelineSeqs(idTable, labels, k + 1, budget - Len(ss)) } :
                   ss \in StageSeqs(idTable[PipelineIds[k]], labels, budget) }

Catalogs(idTable, labels, budget) ==
    { [results |-> Undefined] } \cup
    { [results |-> <<ps>>] : ps \in PipelineSeqs(idTable, labels, 1, budget) }

InitResolve ==
    /\ catalog \in Catalogs(CatalogStageIds, Labels, MaxCatalogStages)
    /\ pipelineId \in PipelineIdArgs
    /\ deals = <<>>
    /\ stages = <<>>
    /\ wonStage = Undefined
    /\ avgWonOverride = Undefined
    /\ out = NoOut
    /\ prevOut = NoOut
    /\ prevDeals = <<>>
    /\ last = "none"
    /\ HandlerIdle

CallResolveStages ==
    /\ last = "none"
    /\ out' = resolveStages(catalog, pipelineId, FRIENDLY_ORDER, DEFAULT_ALIASES)
    /\ last' = "resolveStages"
    /\ UNCHANGED <<deals, stages, wonStage, avgWonOverride, prevOut, prevDeals>>
    /\ UNCHANGED <<resolveVars, handlerVars, pairVars>>

NextResolve == CallResolveStages

SpecResolve == InitResolve /\ [][NextResolve]_vars

---------------------------------------------------------------------------
(* handleGetProbabilities(req, res, hubspotClient), with                   *)
(* getRangeFromQuery and dealsCohort.  An instant is a whole number of    *)
(* half days counted from the start of the current year (server time      *)
(* zone UTC); a date-only string of the query is <<d>>, day d of the year, *)
(* or <<0>> when one of its parts is zero or not a number.                 *)

DayLength == 2   \* instants per day
StartYTD == 0    \* new Date(now.getFullYear(), 0, 1)
Now == 5         \* the clock at the request: day 3, midday
DEFAULT_LIMIT == 50

\* function parseDateOnly(d), of a string: <<>> is null
parseDateOnly(d) ==
    IF d = Undefined \/ d[1] = 0 THEN Undefined
    ELSE <<(d[1] - 1) * DayLength>>

\* faulty variant of getRangeFromQuery (C22): explicit dates come before days
getRangeDatesFirst(q, clock) ==
    LET s == parseDateOnly(q.start)
        e == parseDateOnly(q.end)
    IN IF s # Undefined \/ e # Undefined \/ q.days = Undefined
       THEN [start |-> IF s # Undefined THEN s[1] ELSE StartYTD,
             end |-> IF e # Undefined THEN e[1] ELSE clock]
       ELSE [start |-> clock - q.days[1] * DayLength, end |-> clock]

\* function getRangeFromQuery(query), the clock reading clock
getRangeFromQuery(q, clock) ==
    IF q.days # Undefined
    THEN [start |-> clock - q.days[1] * DayLength, end |-> clock]
    ELSE LET s == parseDateOnly(q.start)
             e == parseDateOnly(q.end)
         IN [start |-> IF s # Undefined THEN s[1] ELSE StartYTD,
             end |-> IF e # Undefined THEN e[1] ELSE clock]

\* req.query.pipeline || null
PipelineOf(q) ==
    IF q.pipeline = Undefined \/ q.pipeline = <<"">> THEN Undefined ELSE q.pipeline

JsonSyntaxError == "Unexpected token o in JSON at position 0"

\* JSON.parse(req.query.stages) on the texts of the input space: <<v>> for
\* the value, <<>> for the throw of a SyntaxError
JSONParse(text) ==
    CASE text = "[\"a\",\"b\"]" -> << <<"a", "b">> >>
      [] text = "[]" -> << <<>> >>
      [] OTHER -> Undefined

\* if (req.query.stages)
HasStagesOverride(q) == q.stages # Undefined /\ q.stages # <<"">>

\* faulty variant of OverrideWonStage (C18): the supplied wonStage is ignored
OverrideWonStageLastOnly(q, stgs) ==
    IF Len(stgs) = 0 THEN Undefined ELSE <<stgs[Len(stgs)]>>

\* req.query.wonStage || stages[stages.length - 1]
OverrideWonStage(q, stgs) ==
    IF q.wonStage # Undefined /\ q.wonStage # <<"">> THEN q.wonStage
    ELSE IF Len(stgs) = 0 THEN Undefined
    ELSE <<stgs[Len(stgs)]>>

\* faulty variant of InCohort (C19): the end of the window is exclusive
InCohortEndExclusive(d, rng, pipeline) ==
    /\ d.createdate >= rng.start
    /\ d.createdate < rng.end
    /\ (pipeline = Undefined \/ d.pipeline = pipeline[1])

\* created >= start && created <= end, and
\* !pipeline || d.properties.pipeline === pipeline
InCohort(d, rng, pipeline) ==
    /\ d.createdate >= rng.start
    /\ d.createdate <= rng.end
    /\ (pipeline = Undefined \/ d.pipeline = pipeline[1])

\* for (const d of resp.results) { ... yield d }: the deals of one page that
\* are yielded, in the page's order
RECURSIVE Yielded(_, _, _)
Yielded(results, rng, pipeline) ==
    IF results = <<>> THEN <<>>
    ELSE (IF InCohort(results[1], rng, pipeline) THEN <<results[1]>> ELSE <<>>)
         \o Yielded(Tail(results), rng, pipeline)

\* the response to getPage(DEFAULT_LIMIT, after, ...)
PageAt(chain, cursor) == IF cursor = Undefined THEN chain[1] ELSE chain[cursor[1]]

\* faulty variant of NoNextCursor (C20): the loop goes on while the store
\* has a further page
StoreExhausted(chain, cursor) ==
    (IF cursor = Undefined THEN 1 ELSE cursor[1]) = Len(chain)

\* if (!resp.paging?.next?.after) break
NoNextCursor(chain, cursor) == PageAt(chain, cursor).next = Undefined

\* faulty variant of NextAfter (C23): the cursor is not advanced
NextAfterStale(chain, cursor) == cursor

\* after = resp.paging.next.after
NextAfter(chain, cursor) == PageAt(chain, cursor).next

GetAllCall == [api |-> "getAll", limit |-> 0, after |-> Undefined]

GetPageCall(cursor) == [api |-> "getPage", limit |-> DEFAULT_LIMIT, after |-> cursor]

\* start.toISOString().slice(0, 10): the day of an instant
IsoDate(t) == (t \div DayLength) + 1

\* res.status(500).json({ success: false, error: err.message })
ErrorResponse(message) ==
    <<[status |-> 500, body |-> [success |-> FALSE, error |-> message]]>>

\* an undefined wonStage is no stage id: ever.has(undefined) is false
WonArg(w) == IF w = Undefined THEN "undefined" ELSE w[1]

\* res.json({ success: true, cohort, config, avgWon, ... })
ReportResponse(rng, pipeline, cfg, ds) ==
    LET stats == computeStats(ds, cfg.stages, WonArg(cfg.wonStage), Undefined)
    IN <<[status |-> 200,
          body |-> [success |-> TRUE,
                    cohort |-> [start |-> IsoDate(rng.start),
                                end |-> IsoDate(rng.end),
                                pipeline |-> IF pipeline = Undefined THEN "ALL"
                                             ELSE pipeline[1]],
                    config |-> cfg,
                    avgWon |-> stats.avgWon,
                    completion |-> stats.completion,
                    progression |-> stats.progression,
                    stageLoss |-> stats.stageLoss,
                    raw |-> [reached |-> stats.reached,
                             wonAfter |-> stats.wonAfter]]]>>

UpstreamError == "HTTP-Code: 502"

(* getRangeFromQuery on its own *)

MaxDaysBack == 2   \* the largest days parameter
MaxDate == 3       \* the latest day of the year named by start or end

Clocks == 0..Now

DaysParams == { Undefined } \cup { <<n>> : n \in 0..MaxDaysBack }

\* absent, unparseable (<<0>>) or a day of the year
DateParams == { Undefined } \cup { <<d>> : d \in 0..MaxDate }

InitRange ==
    /\ query \in [days : DaysParams, start : DateParams, end : DateParams,
                   pipeline : { Undefined }, stages : { Undefined },
                   wonStage : { Undefined }, avgWon : { Undefined }]
    /\ now \in Clocks
    /\ pages = <<>>
    /\ pc = "idle"
    /\ range = Undefined
    /\ config = Undefined
    /\ after = Undefined
    /\ collected = <<>>
    /\ calls = <<>>
    /\ settled = <<>>
    /\ res = Undefined
    /\ reqs = <<>>
    /\ lists = <<>>
    /\ ModuleLoaded
    /\ ResolveIdle
    /\ deals = <<>>
    /\ stages = <<>>
    /\ wonStage = Undefined
    /\ avgWonOverride = Undefined
    /\ out = NoOut
    /\ prevOut = NoOut
    /\ prevDeals = <<>>
    /\ last = "none"

CallGetRangeFromQuery ==
    /\ last = "none"
    /\ pc = "idle"
    /\ range' = <<getRangeFromQuery(query, now)>>
    /\ last' = "getRangeFromQuery"
    /\ UNCHANGED <<deals, stages, wonStage, avgWonOverride, out, prevOut, prevDeals>>
    /\ UNCHANGED <<query, now, pages, pc, config, after, collected, calls, settled, res>>
    /\ UNCHANGED <<resolveVars, pairVars>>

NextRange == CallGetRangeFromQuery

SpecRange == InitRange /\ [][NextRange]_vars

(* The input space of a report request *)

MaxPages == 2       \* pages of the upstream store
MaxPageDeals == 2   \* deals over all pages

CreateDates == {2, 4, 6}

DealPipelines == {"p1", "p2"}

\* the deals of the upstream store: each went from stage a to stage b
UpstreamDeals ==
    { [createdate |-> c, pipeline |-> p, hs_is_closed_won |-> "false",
       amount |-> "1000",
       dealstage |-> <<[value |-> "a", timestamp |-> 1],
                       [value |-> "b", timestamp |-> 2]>>] :
        c \in CreateDates, p \in DealPipelines }

DealSeqs(n) == UNION { [1..k -> UpstreamDeals] : k \in 0..n }

\* the chains of k pages over budget deals: page i names page i + 1 as the
\* next one, or none; the last page names none
RECURSIVE PageChainsFrom(_, _, _)
PageChainsFrom(i, k, budget) ==
    IF i = k
    THEN { <<[results |-> ds, next |-> Undefined]>> : ds \in DealSeqs(budget) }
    ELSE UNION { { <<[results |-> ds, next |-> nx]>> \o rest :
                     nx \in { Undefined, <<i + 1>> },
                     rest \in PageChainsFrom(i + 1, k, budget - Len(ds)) } :
                   ds \in DealSeqs(budget) }

PageChains == UNION { PageChainsFrom(1, k, MaxPageDeals) : k \in 1..MaxPages }

RangeQueries ==
    { [days |-> <<1>>, start |-> Undefined, end |-> Undefined],
      [days |-> Undefined, start |-> <<2>>, end |-> <<3>>],
      [days |-> Undefined, start |-> Undefined, end |-> <<0>>] }

Queries(stagesTexts, wonStages) ==
    { [days |-> r.days, start |-> r.start, end |-> r.end, pipeline |-> p,
       stages |-> s, wonStage |-> w, avgWon |-> Undefined] :
        r \in RangeQueries, p \in { Undefined, <<"p1">>, <<"p9">> },
        s \in stagesTexts, w \in wonStages }

\* two stages of pipeline p1, under the labels given
HandlerPipeline(id, l1, l2) ==
    [id |-> id,
     stages |-> <<[id |-> "a", label |-> <<l1>>], [id |-> "b", label |-> <<l2>>]>>]

HandlerCatalogs ==
    { [results |-> <<ps>>] :
        ps \in { <<>>,
                 <<HandlerPipeline("p1", "SQL Inbox", "Closed Won")>>,
                 <<HandlerPipeline("p2", "Closed Won", "SQL Inbox"),
                   HandlerPipeline("p1", "SQL Inbox", "Closed Lost")>> } }

InitHandler ==
    /\ \/ /\ query \in Queries({ <<"[\"a\",\"b\"]">>, <<"[]">>, <<"oops">> },
                               { Undefined, <<"a">> })
          /\ catalog = [results |-> << <<HandlerPipeline("p1", "SQL Inbox", "Closed Won")>> >>]
       \/ /\ query \in Queries({ Undefined }, { Undefined })
          /\ catalog \in HandlerCatalogs
    /\ now = Now
    /\ pages \in PageChains
    /\ pc = "start"
    /\ range = Undefined
    /\ config = Undefined
    /\ after = Undefined
    /\ collected = <<>>
    /\ calls = <<>>
    /\ settled = <<>>
    /\ res = Undefined
    /\ reqs = <<>>
    /\ lists = <<>>
    /\ ModuleLoaded
    /\ pipelineId = Undefined
    /\ deals = <<>>
    /\ stages = <<>>
    /\ wonStage = Undefined
    /\ avgWonOverride = Undefined
    /\ out = NoOut
    /\ prevOut = NoOut
    /\ prevDeals = <<>>
    /\ last = "none"

computeVars == <<deals, stages, wonStage, avgWonOverride, out, prevOut, prevDeals, last>>

\* lines 181-196, up to the first await: of resolveStages' getAll, or of
\* dealsCohort's first getPage when the stages are given
HandleRequest ==
    /\ pc = "start"
    /\ range' = <<getRangeFromQuery(query, now)>>
    /\ IF HasStagesOverride(query)
       THEN LET parsed == JSONParse(query.stages[1])
            IN IF parsed = Undefined
               THEN /\ res' = ErrorResponse(JsonSyntaxError)
                    /\ pc' = "done"
                    /\ UNCHANGED <<config, calls>>
               ELSE /\ config' = <<[stages |-> parsed[1],
                                    wonStage |-> OverrideWonStage(query, parsed[1])]>>
                    /\ calls' = Append(calls, GetPageCall(Undefined))
                    /\ pc' = "awaitPage"
                    /\ res' = res
       ELSE /\ calls' = Append(calls, GetAllCall)
            /\ pc' = "awaitCatalog"
            /\ UNCHANGED <<config, res>>
    /\ UNCHANGED <<query, now, pages, after, collected, settled, catalog, pipelineId>>
    /\ UNCHANGED <<computeVars, pairVars>>

\* getAll answers: the rest of resolveStages, then dealsCohort's first getPage
CatalogResponds ==
    /\ pc = "awaitCatalog"
    /\ settled' = Append(settled, "ok")
    /\ LET resolved == resolveStages(catalog, PipelineOf(query), tables.order,
                                     tables.aliases)
       IN IF "error" \in DOMAIN resolved
          THEN /\ res' = ErrorResponse(resolved.error)
               /\ pc' = "done"
               /\ UNCHANGED <<config, calls>>
          ELSE /\ config' = <<resolved>>
               /\ calls' = Append(calls, GetPageCall(Undefined))
               /\ pc' = "awaitPage"
               /\ res' = res
    /\ UNCHANGED <<query, now, pages, range, after, collected, catalog, pipelineId>>
    /\ UNCHANGED <<computeVars, pairVars>>

\* getAll rejects: the catch of lines 210-213
CatalogFails ==
    /\ pc = "awaitCatalog"
    /\ settled' = Append(settled, "rejected")
    /\ res' = ErrorResponse(UpstreamError)
    /\ pc' = "done"
    /\ UNCHANGED <<query, now, pages, range, config, after, collected, calls,
                   catalog, pipelineId>>
    /\ UNCHANGED <<computeVars, pairVars>>

\* getPage answers: lines 99-106 and, after the last page, lines 197-209
PageResponds ==
    /\ pc = "awaitPage"
    /\ settled' = Append(settled, "ok")
    /\ collected' = collected
                        \o Yielded(PageAt(pages, after).results, range[1],
                                   PipelineOf(query))
    /\ IF NoNextCursor(pages, after)
       THEN /\ res' = ReportResponse(range[1], PipelineOf(query), config[1], collected')
            /\ pc' = "done"
            /\ UNCHANGED <<after, calls>>
       ELSE /\ after' = NextAfter(pages, after)
            /\ calls' = Append(calls, GetPageCall(after'))
            /\ UNCHANGED <<pc, res>>
    /\ UNCHANGED <<query, now, pages, range, config, catalog, pipelineId>>
    /\ UNCHANGED <<computeVars, pairVars>>

\* faulty variant of PageFails (C21): the rejected page is asked for again
PageFailsRetried ==
    /\ pc = "awaitPage"
    /\ Len(calls) < 4
    /\ settled' = Append(settled, "rejected")
    /\ calls' = Append(calls, GetPageCall(after))
    /\ UNCHANGED <<query, now, pages, pc, range, config, after, collected, res,
                   catalog, pipelineId>>
    /\ UNCHANGED <<computeVars, pairVars>>

\* getPage rejects: the catch of lines 210-213
PageFails ==
    /\ pc = "awaitPage"
    /\ settled' = Append(settled, "rejected")
    /\ res' = ErrorResponse(UpstreamError)
    /\ pc' = "done"
    /\ UNCHANGED <<query, now, pages, range, config, after, collected, calls,
                   catalog, pipelineId>>
    /\ UNCHANGED <<computeVars, pairVars>>

NextHandler ==
    \/ HandleRequest
    \/ CatalogFails
    \/ CatalogResponds
    \/ PageFails
    \/ PageResponds

SpecHandler == InitHandler /\ [][NextHandler]_vars

\* a report request over every chain of pages: the window is the year to
\* date, the stages are given or are those of the catalog
InitPaging ==
    /\ query \in { [days |-> Undefined, start |-> Undefined, end |-> Undefined,
                    pipeline |-> p, stages |-> s, wonStage |-> Undefined,
                    avgWon |-> Undefined] :
                     p \in { Undefined, <<"p1">> },
                     s \in { Undefined, <<"[\"a\",\"b\"]">> } }
    /\ catalog = [results |-> << <<HandlerPipeline("p1", "SQL Inbox", "Closed Won")>> >>]
    /\ now = Now
    /\ pages \in PageChains
    /\ pc = "start"
    /\ range = Undefined
    /\ config = Undefined
    /\ after = Undefined
    /\ collected = <<>>
    /\ calls = <<>>
    /\ settled = <<>>
    /\ res = Undefined
    /\ reqs = <<>>
    /\ lists = <<>>
    /\ ModuleLoaded
    /\ pipelineId = Undefined
    /\ deals = <<>>
    /\ stages = <<>>
    /\ wonStage = Undefined
    /\ avgWonOverride = Undefined
    /\ out = NoOut
    /\ prevOut = NoOut
    /\ prevDeals = <<>>
    /\ last = "none"

\* the store settles every call, and the continuation of a settled call is
\* run
FairSpecPaging == InitPaging /\ [][NextHandler]_vars /\ WF_vars(NextHandler)

---------------------------------------------------------------------------
(* Two report requests in flight against the same catalog and the same    *)
(* chain of pages: the steps of handleGetProbabilities, each request on   *)
(* its own locals, taken in any order.  The store answers every call.     *)

Requests == {1, 2}

\* faulty variant of ListOf (C24): one deals array for the module
SharedList(r) == 1

\* const deals = [] is a local of the call: request r has its own array
ListOf(r) == r

PairQueries ==
    { [days |-> Undefined, start |-> Undefined, end |-> Undefined,
       pipeline |-> p, stages |-> s, wonStage |-> Undefined,
       avgWon |-> Undefined] :
        p \in { Undefined, <<"p1">> },
        s \in { Undefined, <<"[\"a\",\"b\"]">> } }

InitPair ==
    /\ reqs \in [Requests -> { [query |-> q, pc |-> "start", range |-> Undefined,
                                config |-> Undefined, after |-> Undefined,
                                calls |-> <<>>, res |-> Undefined] :
                                 q \in PairQueries }]
    /\ lists = [r \in Requests |-> <<>>]
    /\ ModuleLoaded
    /\ catalog = [results |-> << <<HandlerPipeline("p1", "SQL Inbox", "Closed Won")>> >>]
    /\ now = Now
    /\ pages \in PageChains
    /\ query = [none |-> TRUE]
    /\ pc = "idle"
    /\ range = Undefined
    /\ config = Undefined
    /\ after = Undefined
    /\ collected = <<>>
    /\ calls = <<>>
    /\ settled = <<>>
    /\ res = Undefined
    /\ pipelineId = Undefined
    /\ deals = <<>>
    /\ stages = <<>>
    /\ wonStage = Undefined
    /\ avgWonOverride = Undefined
    /\ out = NoOut
    /\ prevOut = NoOut
    /\ prevDeals = <<>>
    /\ last = "none"

singleVars == <<query, now, pages, pc, range, config, after, collected, calls, settled, res>>

\* lines 181-196 of request r, up to its first await
PairHandleRequest(r) ==
    /\ reqs[r].pc = "start"
    /\ LET q == reqs[r].query
           rng == <<getRangeFromQuery(q, now)>>
       IN IF HasStagesOverride(q)
          THEN LET parsed == JSONParse(q.stages[1])
               IN IF parsed = Undefined
                  THEN /\ reqs' = [reqs EXCEPT ![r].range = rng,
                                               ![r].res = ErrorResponse(JsonSyntaxError),
                                               ![r].pc = "done"]
                       /\ lists' = lists
                  ELSE /\ reqs' = [reqs EXCEPT
                                     ![r].range = rng,
                                     ![r].config =
                                         <<[stages |-> parsed[1],
                                            wonStage |-> OverrideWonStage(q, parsed[1])]>>,
                                     ![r].calls = Append(@, GetPageCall(Undefined)),
                                     ![r].pc = "awaitPage"]
                       /\ lists' = [lists EXCEPT ![ListOf(r)] = <<>>]
          ELSE /\ reqs' = [reqs EXCEPT ![r].range = rng,
                                       ![r].calls = Append(@, GetAllCall),
                                       ![r].pc = "awaitCatalog"]
               /\ lists' = lists
    /\ UNCHANGED <<tables, resolveVars, singleVars, computeVars>>

\* getAll answers request r: the rest of resolveStages, const deals = [],
\* then dealsCohort's first getPage
PairCatalogResponds(r) ==
    /\ reqs[r].pc = "awaitCatalog"
    /\ LET resolved == resolveStages(catalog, PipelineOf(reqs[r].query),
                                     tables.order, tables.aliases)
       IN IF "error" \in DOMAIN resolved
          THEN /\ reqs' = [reqs EXCEPT ![r].res = ErrorResponse(resolved.error),
                                       ![r].pc = "done"]
               /\ lists' = lists
          ELSE /\ reqs' = [reqs EXCEPT ![r].config = <<resolved>>,
                                       ![r].calls = Append(@, GetPageCall(Undefined)),
                                       ![r].pc = "awaitPage"]
               /\ lists' = [lists EXCEPT ![ListOf(r)] = <<>>]
    /\ UNCHANGED <<tables, resolveVars, singleVars, computeVars>>

\* getPage answers request r: lines 99-106 and, after the last page, lines
\* 197-209
PairPageResponds(r) ==
    /\ reqs[r].pc = "awaitPage"
    /\ LET q == reqs[r].query
           cursor == reqs[r].after
       IN /\ lists' = [lists EXCEPT ![ListOf(r)] =
                          @ \o Yielded(PageAt(pages, cursor).results,
                                       reqs[r].range[1], PipelineOf(q))]
          /\ IF NoNextCursor(pages, cursor)
             THEN reqs' = [reqs EXCEPT
                             ![r].res = ReportResponse(reqs[r].range[1], PipelineOf(q),
                                                       reqs[r].config[1],
                                                       lists'[ListOf(r)]),
                             ![r].pc = "done"]
             ELSE reqs' = [reqs EXCEPT
                             ![r].after = NextAfter(pages, cursor),
                             ![r].calls = Append(@, GetPageCall(NextAfter(pages, cursor)))]
    /\ UNCHANGED <<tables, resolveVars, singleVars, computeVars>>

NextPair ==
    \E r \in Requests :
        \/ PairHandleRequest(r)
        \/ PairCatalogResponds(r)
        \/ PairPageResponds(r)

SpecPair == InitPair /\ [][NextPair]_vars

---------------------------------------------------------------------------
(* What the properties are stated with: read off the inputs, not off the    *)
(* counters of the code                                                      *)

HistValues(d) == { d.dealstage[i].value : i \in 1..Len(d.dealstage) }

\* the earliest timestamp at which the history of d holds stage s
Earliest(d, s) ==
    Min({ d.dealstage[i].timestamp :
            i \in { k \in 1..Len(d.dealstage) : d.dealstage[k].value = s } })

\* the deals (by position) whose history contains s
ReachedDeals(ds, s) == { j \in 1..Len(ds) : s \in HistValues(ds[j]) }

\* the deals whose history contains s and s1, s1 first seen strictly later
ProgressedDeals(ds, s, s1) ==
    { j \in 1..Len(ds) :
        /\ s \in HistValues(ds[j])
        /\ s1 \in HistValues(ds[j])
        /\ Earliest(ds[j], s1) > Earliest(ds[j], s) }

\* the deals that are won: flagged closed-won, or the history holds won
WonDeals(ds, won) ==
    { j \in 1..Len(ds) :
        /\ ds[j].dealstage # <<>>
        /\ (ds[j].hs_is_closed_won = "true" \/ won \in HistValues(ds[j])) }

RECURSIVE SumAmounts(_, _)
SumAmounts(ds, J) ==
    IF J = {} THEN 0
    ELSE LET j == CHOOSE x \in J : TRUE
         IN Amount(ds[j]) + SumAmounts(ds, J \ {j})

Distinct(seq) == \A i, j \in 1..Len(seq) : i # j => seq[i] # seq[j]

\* x = y for finite numbers
RatEq(x, y) == x.den # 0 /\ y.den # 0 /\ x.num * y.den = y.num * x.den

ProgressionCalled == last = "computeProgression"
StatsCalled ==
    last \in {"computeStats", "again", "emptyHistoryDeal", "permutedDeals",
              "reorderedHistory"}

---------------------------------------------------------------------------
(* Properties of computeProgression, under SpecProgression *)

\* C1: for any stage list and deals, progression[s->s1].progressed is the
\* number of deals whose history holds both s and s1 with the earliest
\* timestamp of s1 strictly greater than the earliest timestamp of s.
C1_ProgressedCountsDeals ==
    ProgressionCalled =>
        \A i \in 1..(Len(stages) - 1) :
            out.progression[Key(stages[i], stages[i + 1])].progressed
                = Cardinality(ProgressedDeals(deals, stages[i], stages[i + 1]))

---------------------------------------------------------------------------
(* Properties of computeStats, under Spec *)

\* C2: for every stage s of the stage list, the reach count (from_reached of
\* the progression, reached of the completion) is the number of deals whose
\* history contains s at least once.
C2_ReachCountsDeals ==
    StatsCalled =>
        \A i \in 1..Len(stages) :
            /\ out.completion[stages[i]].reached
                  = Cardinality(ReachedDeals(deals, stages[i]))
            /\ i < Len(stages) =>
                  out.progression[Key(stages[i], stages[i + 1])].from_reached
                      = Cardinality(ReachedDeals(deals, stages[i]))

\* C4: every completion record has wonAfter <= reached, p_win within [0, 1],
\* and p_win exactly 0 when reached is 0.
C4_PWinWithinUnitInterval ==
    StatsCalled =>
        \A i \in 1..Len(stages) :
            LET c == out.completion[stages[i]]
            IN /\ c.wonAfter <= c.reached
               /\ Leq(Zero, c.p_win)
               /\ Leq(c.p_win, One)
               /\ (c.reached = 0 => c.p_win = Zero)

\* one stage nobody reached and one stage that some deals left without winning
C4_Witness ==
    /\ StatsCalled
    /\ \E i \in 1..Len(stages) :
          LET c == out.completion[stages[i]]
          IN c.reached = 0 /\ c.p_win = Zero
    /\ \E i \in 1..Len(stages) :
          LET c == out.completion[stages[i]]
          IN 0 < c.wonAfter /\ c.wonAfter < c.reached

\* C6: without an override, avgWon is the sum of the amounts of the won deals
\* of positive amount divided by the number of won deals of positive amount
\* (0 when there is none).
C6_AvgWonOverPositiveAmounts ==
    (StatsCalled /\ avgWonOverride = Undefined) =>
        LET positive == { j \in WonDeals(deals, wonStage[1]) :
                            Amount(deals[j]) > 0 }
        IN out.avgWon = IF positive = {} THEN Zero
                        ELSE Div(SumAmounts(deals, positive),
                                 Cardinality(positive))

\* C7: wonAfter[s] is the number of deals of non-empty history that contain s
\* and are won (closed-won flag set, or wonStage in the history); when every
\* deal is won, wonAfter = reached and p_win = 1 at every reached stage.
C7_WonAfterCountsWonDeals ==
    StatsCalled =>
        /\ \A s \in StageIds :
              GetOr0(out.wonAfter, s)
                  = Cardinality(WonDeals(deals, wonStage[1])
                                    \cap ReachedDeals(deals, s))
        /\ WonDeals(deals, wonStage[1]) = 1..Len(deals) =>
              \A i \in 1..Len(stages) :
                  LET c == out.completion[stages[i]]
                  IN c.reached > 0 => (c.wonAfter = c.reached /\ c.p_win = One)

\* a deal won by its flag alone and a deal won by its history alone, both
\* counted
C7_Witness ==
    /\ StatsCalled
    /\ \E j, k \in 1..Len(deals) :
          /\ deals[j].hs_is_closed_won = "true"
          /\ deals[j].dealstage # <<>>
          /\ wonStage[1] \notin HistValues(deals[j])
          /\ deals[k].hs_is_closed_won = "false"
          /\ wonStage[1] \in HistValues(deals[k])
          /\ \A s \in HistValues(deals[j]) \cup HistValues(deals[k]) :
                GetOr0(out.wonAfter, s) >= 1
    /\ \E i \in 1..Len(stages) : out.completion[stages[i]].p_win = One

\* C8: a call whose deals hold one more deal, of empty stage history, returns
\* what the call without that deal returned.
C8_EmptyHistoryDealChangesNothing ==
    last = "emptyHistoryDeal" => out = prevOut

\* the added deal is flagged closed-won and has a positive amount, next to a
\* won deal that is counted
C8_Witness ==
    /\ last = "emptyHistoryDeal"
    /\ Len(prevDeals) = 1
    /\ \E k \in 1..Len(deals) :
          /\ deals = InsertAt(prevDeals, k, deals[k])
          /\ deals[k].dealstage = <<>>
          /\ deals[k].hs_is_closed_won = "true"
          /\ deals[k].amount = "1000"
    /\ avgWonOverride = Undefined
    /\ out.avgWon = Num(1000)

\* C9: with a numeric avgWonOverride, avgWon is the override whatever the
\* deals are, and every euro_value is override x p_win.
C9_OverrideForcesAvgWon ==
    (StatsCalled /\ avgWonOverride # Undefined) =>
        /\ out.avgWon = Num(avgWonOverride[1])
        /\ \A i \in 1..Len(stages) :
              LET c == out.completion[stages[i]]
              IN RatEq(c.euro_value,
                       [num |-> avgWonOverride[1] * c.p_win.num,
                        den |-> c.p_win.den])

\* override 500 over a cohort whose own average is 1000, at a stage won half
\* of the time
C9_Witness ==
    /\ StatsCalled
    /\ avgWonOverride = <<500>>
    /\ \E j \in WonDeals(deals, wonStage[1]) : deals[j].amount = "1000"
    /\ out.avgWon = Num(500)
    /\ \E i \in 1..Len(stages) :
          LET c == out.completion[stages[i]]
          IN c.p_win = [num |-> 1, den |-> 2] /\ c.euro_value = Num(250)

C13_EmptyCohortGivesZeros ==
    StatsCalled =>
        /\ deals = <<>> =>
              \A i \in 1..Len(stages) :
                  out.completion[stages[i]]
                      = [reached |-> 0, wonAfter |-> 0, p_win |-> Zero,
                         euro_value |-> Zero]
        /\ (WonDeals(deals, wonStage[1]) = {} /\ avgWonOverride = Undefined) =>
              out.avgWon = Zero

\* the empty cohort over a list of two stages, no override
C13_Witness ==
    /\ StatsCalled
    /\ deals = <<>>
    /\ avgWonOverride = Undefined
    /\ Len(stages) = 2
    /\ DOMAIN out.completion = Range(stages)
    /\ out.avgWon = Zero

---------------------------------------------------------------------------
(* Properties of computeStats, under SpecHistory *)

\* C12: whatever the order of the entries of each deal's stage history
\* (entries that share a timestamp included), reached, progression, stageLoss
\* and completion are the same.
C12_HistoryOrderIsIrrelevant ==
    last = "reorderedHistory" =>
        /\ out.reached = prevOut.reached
        /\ out.progression = prevOut.progression
        /\ out.stageLoss = prevOut.stageLoss
        /\ out.completion = prevOut.completion

\* a history that first arrives with a later entry of a stage ahead of its
\* earliest one, and a deal that progressed
C12_Witness ==
    /\ last = "reorderedHistory"
    /\ deals # prevDeals
    /\ \E j \in 1..Len(deals) :
          \E s \in StageIds :
              /\ Len(prevDeals[j].dealstage) = 3
              /\ FindT(MapVT(prevDeals[j].dealstage), s) # FindT(SortedHist(prevDeals[j]), s)
    /\ \E i \in 1..(Len(stages) - 1) :
          out.progression[Key(stages[i], stages[i + 1])].progressed >= 1

---------------------------------------------------------------------------
(* Properties of resolveStages, under SpecResolve *)

Resolved == last = "resolveStages" /\ "stages" \in DOMAIN out

\* the stages of the pipeline the call selected
SelectedStages == FindPipeline(Pipelines(catalog), pipelineId)[1].stages

\* the label, whatever its case, contains one of the aliases
LabelMatches(label, aliases) ==
    /\ label # Undefined
    /\ \E k \in 1..Len(aliases) :
          includes(toLowerCase(label[1]), toLowerCase(aliases[k]))

\* the ids of the selected stages whose label matches an alias of key
IdsMatching(key) ==
    { SelectedStages[i].id :
        i \in { j \in 1..Len(SelectedStages) :
                  LabelMatches(SelectedStages[j].label, DEFAULT_ALIASES[key]) } }

\* C14: with the default order and aliases, a stage labelled
\* "Qualified To Buy" of the selected pipeline is resolved: its id is in the
\* returned stage list.
C14_QualifiedToBuyIsResolved ==
    Resolved =>
        \A i \in 1..Len(SelectedStages) :
            SelectedStages[i].label = <<"Qualified To Buy">>
                => SelectedStages[i].id \in Range(out.stages)

\* C15: in a successful result, if some label matches a won alias then
\* wonStage is the id of such a stage, and that id occurs in stages exactly
\* once, as the last element; if none does, wonStage is the last element of
\* the list (undefined for an empty list).
C15_WonStageIsLastAndOnce ==
    Resolved =>
        IF IdsMatching("closedwon") # {}
        THEN /\ out.wonStage # Undefined
             /\ out.wonStage[1] \in IdsMatching("closedwon")
             /\ Len(out.stages) >= 1
             /\ out.stages[Len(out.stages)] = out.wonStage[1]
             /\ Cardinality({ i \in 1..Len(out.stages) : out.stages[i] = out.wonStage[1] }) = 1
        ELSE out.wonStage = IF Len(out.stages) = 0 THEN Undefined
                            ELSE <<out.stages[Len(out.stages)]>>

\* the won stage also matches the aliases of contact, where the mapping put
\* it first, and stands last behind another stage
C15_Witness ==
    /\ Resolved
    /\ out.wonStage # Undefined
    /\ out.wonStage[1] \in IdsMatching("contact") \cap IdsMatching("closedwon")
    /\ Len(out.stages) >= 2
    /\ out.stages[Len(out.stages)] = out.wonStage[1]

\* the canonical entries that some label matches, in canonical order
MatchedKeys == SelectSeq(FRIENDLY_ORDER, LAMBDA key : IdsMatching(key) # {})

\* the lists that hold, for each matched entry in turn, one id that matches it
RECURSIVE OneIdPerKey(_)
OneIdPerKey(keys) ==
    IF keys = <<>> THEN { <<>> }
    ELSE { <<id>> \o rest : id \in IdsMatching(keys[1]), rest \in OneIdPerKey(Tail(keys)) }

\* seq without the won id (closedWonId)
NonWon(seq) ==
    SelectSeq(seq, LAMBDA id : IdsMatching("closedwon") = {} \/ <<id>> # out.wonStage)

\* C16: the returned list holds ids of the selected pipeline only (no null),
\* and its non-won part is, in canonical order, one id for every canonical
\* entry that some label matches case-insensitively, and nothing for the
\* others.
C16_OneIdPerMatchedEntryInCanonicalOrder ==
    Resolved =>
        /\ \A i \in 1..Len(out.stages) :
              \E j \in 1..Len(SelectedStages) : out.stages[i] = SelectedStages[j].id
        /\ \E c \in OneIdPerKey(MatchedKeys) : NonWon(c) = NonWon(out.stages)

\* two non-won stages come back in canonical order, against the pipeline's
\* own order, while other canonical entries match nothing
C16_Witness ==
    /\ Resolved
    /\ Len(MatchedKeys) < Len(FRIENDLY_ORDER)
    /\ \E i, j \in 1..Len(out.stages) :
          /\ i < j
          /\ <<out.stages[i]>> # out.wonStage
          /\ <<out.stages[j]>> # out.wonStage
          /\ \E a, b \in 1..Len(SelectedStages) :
                /\ a > b
                /\ SelectedStages[a].id = out.stages[i]
                /\ SelectedStages[b].id = out.stages[j]

---------------------------------------------------------------------------
(* Properties of handleGetProbabilities, under SpecHandler *)

\* the upstream calls of one api made so far
CallsTo(api) == SelectSeq(calls, LAMBDA c : c.api = api)

Responded(status) == res # Undefined /\ res[1].status = status

\* the catalog has answered the handler's getAll
CatalogAnswered ==
    /\ Len(CallsTo("getAll")) = 1
    /\ pc # "awaitCatalog"
    /\ ~(Responded(500) /\ res[1].body.error = UpstreamError /\ config = Undefined)

\* the catalog holds no pipeline of the id the request names
NoSuchPipeline ==
    /\ query.pipeline # Undefined
    /\ \A i \in 1..Len(Pipelines(catalog)) : Pipelines(catalog)[i].id # query.pipeline[1]

\* C17: when the catalog answers with no pipeline at all, or with none of the
\* id the request names, resolveStages throws: no stage list is settled (the
\* first pipeline is not taken instead), no page is asked for, and the
\* request is answered 500 with the error's message.
C17_NoPipelineFailsTheRequest ==
    (CatalogAnswered /\ (Len(Pipelines(catalog)) = 0 \/ NoSuchPipeline)) =>
        /\ pc = "done"
        /\ config = Undefined
        /\ Len(CallsTo("getPage")) = 0
        /\ Responded(500)
        /\ res[1].body = [success |-> FALSE, error |-> NoPipelineError]

\* a request for pipeline p9 against a catalog of other pipelines
C17_Witness ==
    /\ CatalogAnswered
    /\ NoSuchPipeline
    /\ Len(Pipelines(catalog)) = 2
    /\ Responded(500)
    /\ res[1].body.error = NoPipelineError

\* C18: the handler asks the catalog if and only if the request carries no
\* stages override; with an override, config.stages is the supplied list and
\* config.wonStage the supplied wonStage or, without one, the list's last
\* element.
C18_OverrideBypassesTheCatalog ==
    /\ pc \notin {"idle", "start"} =>
          (Len(CallsTo("getAll")) = 0 <=> query.stages # Undefined)
    /\ (query.stages # Undefined /\ config # Undefined) =>
          /\ config[1].stages = JSONParse(query.stages[1])[1]
          /\ config[1].wonStage =
                IF query.wonStage # Undefined THEN query.wonStage
                ELSE IF Len(config[1].stages) = 0 THEN Undefined
                ELSE <<config[1].stages[Len(config[1].stages)]>>
          /\ Responded(200) => res[1].body.config = config[1]

\* a report under the override ["a","b"] with wonStage a
C18_Witness ==
    /\ Responded(200)
    /\ query.stages = <<"[\"a\",\"b\"]">>
    /\ query.wonStage = <<"a">>
    /\ res[1].body.config = [stages |-> <<"a", "b">>, wonStage |-> <<"a">>]
    /\ Len(CallsTo("getAll")) = 0
    /\ Len(CallsTo("getPage")) >= 1

\* the index of the first page that names no next page
FirstCursorless == Min({ i \in 1..Len(pages) : pages[i].next = Undefined })

\* the deals of pages 1..n, in upstream order
RECURSIVE UpstreamUpTo(_)
UpstreamUpTo(n) == IF n = 0 THEN <<>> ELSE UpstreamUpTo(n - 1) \o pages[n].results

\* the deal is created within [start, end] and is of the pipeline asked for
Wanted(d) ==
    /\ range[1].start <= d.createdate
    /\ d.createdate <= range[1].end
    /\ (query.pipeline # Undefined => d.pipeline = query.pipeline[1])

\* C19: dealsCohort yields deals of the window and the pipeline only, and
\* once it is through the chain of pages it has yielded exactly the upstream
\* deals with start <= createdate <= end (and of the pipeline, when one is
\* given), once per occurrence, in upstream order.
C19_CohortIsTheWindowOfTheUpstream ==
    /\ \A i \in 1..Len(collected) : Wanted(collected[i])
    /\ Responded(200) =>
          collected = SelectSeq(UpstreamUpTo(FirstCursorless), Wanted)

\* two pages, a deal created at the very end of the window yielded, another
\* deal left out
C19_Witness ==
    /\ Responded(200)
    /\ FirstCursorless = 2
    /\ Len(collected) = 1
    /\ collected[1].createdate = range[1].end
    /\ Len(UpstreamUpTo(2)) = 2

---------------------------------------------------------------------------
(* Property of dealsCohort, under FairSpecPaging *)

\* the request is answered, by the report unless the store failed
Completed ==
    /\ pc = "done"
    /\ \/ Responded(200)
       \/ Responded(500) /\ res[1].body.error = UpstreamError

\* C20: no page is asked for after the first response without a next-page
\* cursor, and a request that is waiting for a page is eventually answered,
\* by the report unless the store failed.
C20_PagingStopsAtTheLastPage ==
    /\ [](Len(CallsTo("getPage")) <= FirstCursorless)
    /\ (pc = "awaitPage") ~> Completed

\* a report made after one page that named no next page, the store holding a
\* further page
C20_Witness ==
    /\ Responded(200)
    /\ Len(pages) = 2
    /\ FirstCursorless = 1
    /\ calls[Len(calls)] = GetPageCall(Undefined)
    /\ Len(CallsTo("getPage")) = 1

---------------------------------------------------------------------------
(* Further properties of handleGetProbabilities, under SpecHandler *)

\* the store rejected one of the request's calls
Rejected == \E i \in 1..Len(settled) : settled[i] = "rejected"

\* C21: once the store has rejected a call of the request (getAll or a
\* getPage), that call is the request's last one (no retry, no further call)
\* and the request is answered 500 with { success: false, error: message };
\* no report, whole or partial, is sent.
C21_RejectedCallFailsTheRequest ==
    Rejected =>
        /\ Len(calls) = Len(settled)
        /\ settled[Len(settled)] = "rejected"
        /\ Cardinality({ i \in 1..Len(settled) : settled[i] = "rejected" }) = 1
        /\ pc = "done"
        /\ res = <<[status |-> 500,
                    body |-> [success |-> FALSE, error |-> UpstreamError]]>>

\* the second page is rejected after the first one yielded a deal
C21_Witness ==
    /\ Rejected
    /\ Len(CallsTo("getPage")) = 2
    /\ Len(collected) >= 1
    /\ Responded(500)

\* C23: every call but the first is made after the call before it was
\* answered; getAll, when made, is the first call; the first getPage carries
\* no cursor and every later one the next-cursor of the page answered just
\* before; the report is made when every call is answered, the last page
\* named no next one, and its counts are those of the whole cohort.
C23_UpstreamCallsAreSequential ==
    LET gp == CallsTo("getPage")
    IN /\ Len(calls) - Len(settled) \in {0, 1}
       /\ \A i \in 2..Len(calls) : settled[i - 1] = "ok"
       /\ \A i \in 1..Len(calls) : calls[i].api = "getAll" => i = 1
       /\ Len(gp) >= 1 => gp[1].after = Undefined
       /\ \A i \in 2..Len(gp) :
             /\ PageAt(pages, gp[i - 1].after).next # Undefined
             /\ gp[i].after = PageAt(pages, gp[i - 1].after).next
       /\ Responded(200) =>
             /\ Len(settled) = Len(calls)
             /\ \A i \in 1..Len(settled) : settled[i] = "ok"
             /\ PageAt(pages, gp[Len(gp)].after).next = Undefined
             /\ res[1].body.raw.reached =
                    computeStats(SelectSeq(UpstreamUpTo(FirstCursorless), Wanted),
                                 config[1].stages, WonArg(config[1].wonStage),
                                 Undefined).reached

\* a report made after the catalog and two pages
C23_Witness ==
    /\ Responded(200)
    /\ Len(calls) = 3
    /\ calls[1].api = "getAll"
    /\ calls[3].after = <<2>>
    /\ Len(collected) = 2

---------------------------------------------------------------------------
(* Property of getRangeFromQuery, under SpecRange *)

\* the date parameter is present and parses
DateGiven(d) == d # Undefined /\ d[1] # 0

\* the local midnight that begins day d of the year
Midnight(d) == (d - 1) * DayLength

\* C22: with days = N the window is [now - N days, now], whatever start and
\* end say; without days, start is the date given or else 1 January of the
\* current year, and end is the date given or else now.
C22_WindowOfTheQuery ==
    last = "getRangeFromQuery" =>
        IF query.days # Undefined
        THEN range[1] = [start |-> now - query.days[1] * DayLength, end |-> now]
        ELSE /\ range[1].start = IF DateGiven(query.start) THEN Midnight(query.start[1])
                                 ELSE StartYTD
             /\ range[1].end = IF DateGiven(query.end) THEN Midnight(query.end[1])
                               ELSE now

\* days is given next to explicit dates, which would give another window
C22_Witness ==
    /\ last = "getRangeFromQuery"
    /\ query.days = <<1>>
    /\ DateGiven(query.start)
    /\ DateGiven(query.end)
    /\ range[1].start # Midnight(query.start[1])
    /\ range[1].end # Midnight(query.end[1])
    /\ range[1].start = now - DayLength

---------------------------------------------------------------------------
(* Further properties of resolveStages, under SpecResolve *)

\* the selected stages, in catalog order, whose label contains the alias
StagesContaining(alias) ==
    { j \in 1..Len(SelectedStages) : LabelMatches(SelectedStages[j].label, <<alias>>) }

\* of a matched entry: the first stage, in catalog order, whose label
\* contains the first alias, in alias order, that any label contains
IdByAliasOrder(key) ==
    LET aliases == DEFAULT_ALIASES[key]
        k == Min({ a \in 1..Len(aliases) : StagesContaining(aliases[a]) # {} })
    IN SelectedStages[Min(StagesContaining(aliases[k]))].id

\* C25: every matched canonical entry resolves to the first stage, in catalog
\* order, whose label contains the earliest alias of the entry that any label
\* contains: alias order comes before stage order.
C25_AliasOrderBeforeStageOrder ==
    Resolved =>
        LET keys == MatchedKeys
            ids == [i \in 1..Len(keys) |-> IdByAliasOrder(keys[i])]
            wonMatched == keys # <<>> /\ keys[Len(keys)] = "closedwon"
            NotWon(id) == ~wonMatched \/ <<id>> # out.wonStage
        IN /\ SelectSeq(out.stages, NotWon) = SelectSeq(ids, NotWon)
           /\ wonMatched => out.wonStage = <<ids[Len(ids)]>>

\* the won stage matches 'closed won' and stands in the pipeline behind a
\* stage that matches only the later alias 'won'
C25_Witness ==
    /\ Resolved
    /\ out.wonStage # Undefined
    /\ \E i, j \in 1..Len(SelectedStages) :
          /\ i < j
          /\ SelectedStages[j].id = out.wonStage[1]
          /\ i \in StagesContaining("won")
          /\ i \notin StagesContaining("closed won")
          /\ j \in StagesContaining("closed won")

\* C28: the stage list returned by resolveStages holds no stage id twice.
C28_NoStageIdTwice ==
    Resolved =>
        \A i, j \in 1..Len(out.stages) : i # j => out.stages[i] # out.stages[j]

---------------------------------------------------------------------------
(* Further properties of computeStats, under Spec *)

C29_WonStageIsAlwaysWon ==
    (/\ StatsCalled
     /\ wonStage[1] \in Range(stages)
     /\ ReachedDeals(deals, wonStage[1]) # {}) =>
        /\ out.completion[wonStage[1]].wonAfter = out.completion[wonStage[1]].reached
        /\ out.completion[wonStage[1]].p_win = One

\* a deal not flagged as won reached wonStage and left it again, next to a
\* deal that is not won
C29_Witness ==
    /\ StatsCalled
    /\ wonStage[1] \in Range(stages)
    /\ Len(deals) = 2
    /\ Cardinality(WonDeals(deals, wonStage[1])) = 1
    /\ \E j \in ReachedDeals(deals, wonStage[1]) :
          /\ deals[j].hs_is_closed_won = "false"
          /\ Len(deals[j].dealstage) = 2
          /\ deals[j].dealstage[1].value = wonStage[1]
          /\ deals[j].dealstage[2].value # wonStage[1]
          /\ deals[j].dealstage[1].timestamp < deals[j].dealstage[2].timestamp
    /\ out.completion[wonStage[1]].p_win = One

---------------------------------------------------------------------------
(* A further property of handleGetProbabilities, under SpecHandler *)

\* the id of the pipeline whose stages resolveStages read: the one the
\* request names or, when it names none, the first of the catalog
ResolvedPipeline ==
    IF query.pipeline # Undefined THEN query.pipeline[1]
    ELSE Pipelines(catalog)[1].id

\* C30: in a report whose stages were resolved from the catalog, every deal
\* of the cohort is of the pipeline whose stages were read, also when the
\* request names no pipeline.
C30_CohortIsOfTheResolvedPipeline ==
    (Responded(200) /\ query.stages = Undefined) =>
        \A i \in 1..Len(collected) : collected[i].pipeline = ResolvedPipeline

---------------------------------------------------------------------------
(* Property of two interleaved requests, under SpecPair *)

\* the deals a request of query q collects from the cursor on when it runs
\* alone
RECURSIVE DrainedAlone(_, _, _)
DrainedAlone(q, rng, cursor) ==
    Yielded(PageAt(pages, cursor).results, rng, PipelineOf(q))
        \o (IF NoNextCursor(pages, cursor) THEN <<>>
            ELSE DrainedAlone(q, rng, NextAfter(pages, cursor)))

\* the response to a request of query q that runs alone against the catalog
\* and the pages
AloneResponse(q) ==
    LET rng == getRangeFromQuery(q, now)
        cfg == IF HasStagesOverride(q)
               THEN [stages |-> JSONParse(q.stages[1])[1],
                     wonStage |-> OverrideWonStage(q, JSONParse(q.stages[1])[1])]
               ELSE resolveStages(catalog, PipelineOf(q), FRIENDLY_ORDER,
                                  DEFAULT_ALIASES)
    IN IF "error" \in DOMAIN cfg THEN ErrorResponse(cfg.error)
       ELSE ReportResponse(rng, PipelineOf(q), cfg, DrainedAlone(q, rng, Undefined))

\* C24: however the steps of two requests interleave, each response is the
\* one the request gets when it runs alone against the same catalog and
\* pages, and the module's order and alias tables stay as defined.
C24_InterleavedRequestsAreIndependent ==
    /\ \A r \in DOMAIN reqs :
          reqs[r].res # Undefined => reqs[r].res = AloneResponse(reqs[r].query)
    /\ tables = [order |-> FRIENDLY_ORDER, aliases |-> DEFAULT_ALIASES]

\* request 2 started and finished while request 1 was between its two pages,
\* and both reports hold deals
C24_Witness ==
    /\ DOMAIN reqs = Requests
    /\ reqs[1].pc = "awaitPage"
    /\ reqs[1].after = <<2>>
    /\ Len(lists[1]) = 1
    /\ reqs[2].pc = "done"
    /\ reqs[2].res[1].status = 200
    /\ Len(lists[2]) = 2
    /\ reqs[1].query # reqs[2].query

=============================================================================
